---- MODULE Spec2Model ----
(***************************************************************************)
(* MeetC2: a command channel over a shared calendar store.  The organizer *)
(* (console) creates calendar entries whose SUMMARY carries a command; the *)
(* guests poll the store, execute the commands addressed to them and write *)
(* the output back into the entry's DESCRIPTION as [OUTPUT-<host>] blocks. *)
(*                                                                         *)
(* Text is modelled as a sequence of one-character strings, so that every  *)
(* prefix test, substring search, split and trim of the Go code is         *)
(* computed on the characters, as the code computes it.                    *)
(***************************************************************************)
EXTENDS Naturals, Sequences, FiniteSets, TLC

(***************************************************************************)
(* Go's strings package, on sequences of characters.                       *)
(***************************************************************************)

\* unicode.IsSpace on the characters the model uses
IsSpace(c) == c \in {" ", "\n", "\t", "\r"}

HasPrefix(s, p) == Len(p) <= Len(s) /\ SubSeq(s, 1, Len(p)) = p

HasSuffix(s, p) == Len(p) <= Len(s) /\ SubSeq(s, Len(s) - Len(p) + 1, Len(s)) = p

TrimPrefix(s, p) == IF HasPrefix(s, p) THEN SubSeq(s, Len(p) + 1, Len(s)) ELSE s

TrimSuffix(s, p) == IF HasSuffix(s, p) THEN SubSeq(s, 1, Len(s) - Len(p)) ELSE s

\* strings.Index, 1-based; 0 when sub does not occur in s
Index(s, sub) ==
    IF sub = <<>> THEN 1
    ELSE LET hits == {i \in 1..(Len(s) - Len(sub) + 1) :
                         s[i] = sub[1] /\ SubSeq(s, i, i + Len(sub) - 1) = sub}
         IN  IF hits = {} THEN 0 ELSE CHOOSE i \in hits : \A j \in hits : i <= j

Contains(s, sub) == Index(s, sub) # 0

\* strings.Count for a non-empty sub whose occurrences cannot overlap
Occurrences(s, sub) ==
    Cardinality({i \in 1..(Len(s) - Len(sub) + 1) :
                    s[i] = sub[1] /\ SubSeq(s, i, i + Len(sub) - 1) = sub})

TrimSpace(s) ==
    LET keep == {i \in 1..Len(s) : ~IsSpace(s[i])}
    IN  IF keep = {} THEN <<>>
        ELSE SubSeq(s, CHOOSE i \in keep : \A j \in keep : i <= j,
                       CHOOSE i \in keep : \A j \in keep : j <= i)

\* strings.Split(s, sep) for a non-empty separator: always at least one piece
RECURSIVE Split(_, _)
Split(s, sep) ==
    LET i == Index(s, sep)
    IN  IF i = 0 THEN <<s>>
        ELSE <<SubSeq(s, 1, i - 1)>> \o Split(SubSeq(s, i + Len(sep), Len(s)), sep)

\* strings.SplitN(s, sep, 2): at most two pieces, cut at the first separator
SplitN2(s, sep) ==
    LET i == Index(s, sep)
    IN  IF i = 0 THEN <<s>>
        ELSE <<SubSeq(s, 1, i - 1), SubSeq(s, i + Len(sep), Len(s))>>

\* strings.Fields: the maximal runs of non-space characters
RECURSIVE Fields(_)
Fields(s) ==
    LET t == TrimSpace(s)
        sp == {i \in 1..Len(t) : IsSpace(t[i])}
    IN  IF t = <<>> THEN <<>>
        ELSE IF sp = {} THEN <<t>>
        ELSE LET i == CHOOSE k \in sp : \A j \in sp : k <= j
             IN  <<SubSeq(t, 1, i - 1)>> \o Fields(SubSeq(t, i, Len(t)))

RECURSIVE Join(_, _)
Join(parts, sep) ==
    IF parts = <<>> THEN <<>>
    ELSE IF Len(parts) = 1 THEN parts[1]
    ELSE parts[1] \o sep \o Join(Tail(parts), sep)

\* strings.ReplaceAll for a non-empty old: left to right, non-overlapping
RECURSIVE ReplaceAll(_, _, _)
ReplaceAll(s, old, new) ==
    LET i == Index(s, old)
    IN  IF i = 0 THEN s
        ELSE SubSeq(s, 1, i - 1) \o new \o ReplaceAll(SubSeq(s, i + Len(old), Len(s)), old, new)

(***************************************************************************)
(* The protocol's literals.                                                *)
(***************************************************************************)

\* "Meeting from nobody:"
commandPrefix ==
    <<"M","e","e","t","i","n","g"," ","f","r","o","m"," ","n","o","b","o","d","y",":">>

\* "[OUTPUT-"
OutputOpen == <<"[","O","U","T","P","U","T","-">>

\* "[/OUTPUT-"
OutputClose == <<"[","/","O","U","T","P","U","T","-">>

\* fmt.Sprintf("[OUTPUT-%s]", host)
StartMarker(host) == OutputOpen \o host \o <<"]">>

\* fmt.Sprintf("[/OUTPUT-%s]", host)
EndMarker(host) == OutputClose \o host \o <<"]">>

\* fmt.Sprintf("[Host: %s]\n", host)
hostInfo(host) == <<"[","H","o","s","t",":"," ">> \o host \o <<"]","\n">>

\* runtime.GOOS + "/" + runtime.GOARCH of the build
OsArch == <<"l","i","n","u","x","/","a","m","d","6","4">>

(***************************************************************************)
(* The iCalendar TEXT value.  The guest reads and writes properties with   *)
(* Props.Text / Props.SetText, which unescape and escape; the console      *)
(* reads Prop.Value, the escaped value, and undoes only the "\n" escape.   *)
(***************************************************************************)

\* the escaped value SetText stores for one character of text
EscapeChar(c) ==
    IF c = "\\" THEN <<"\\", "\\">>
    ELSE IF c = "\n" THEN <<"\\", "n">>
    ELSE IF c = ";" THEN <<"\\", ";">>
    ELSE IF c = "," THEN <<"\\", ",">>
    ELSE <<c>>

\* the concatenation of a sequence of strings
RECURSIVE Concat(_)
Concat(parts) ==
    IF parts = <<>> THEN <<>>
    ELSE IF Len(parts) = 1 THEN parts[1]
    ELSE LET m == Len(parts) \div 2
         IN  Concat(SubSeq(parts, 1, m)) \o Concat(SubSeq(parts, m + 1, Len(parts)))

\* Prop.Value of a TEXT property holding text
PropValue(text) == Concat([i \in 1..Len(text) |-> EscapeChar(text[i])])

\* strings.ReplaceAll(description, "\\n", "\n") on the escaped value
ConsoleDescription(text) == ReplaceAll(PropValue(text), <<"\\", "n">>, <<"\n">>)

(***************************************************************************)
(* Guest: decoding of a summary (CheckAndExecute) and the executor.        *)
(***************************************************************************)

\* commandLineOf without the trimming
commandLineOfUntrimmed(summary) == TrimPrefix(summary, commandPrefix)

commandLineOf(summary) == TrimSpace(TrimPrefix(summary, commandPrefix))

\* the "@...:" annotation was found and cut off
Annotated(summary) ==
    /\ HasPrefix(commandLineOf(summary), <<"@">>)
    /\ Len(SplitN2(commandLineOf(summary), <<":">>)) = 2

targetHostOf(summary) ==
    IF Annotated(summary)
    THEN TrimPrefix(SplitN2(commandLineOf(summary), <<":">>)[1], <<"@">>)
    ELSE <<>>

actualCmdOf(summary) ==
    IF Annotated(summary)
    THEN SplitN2(commandLineOf(summary), <<":">>)[2]
    ELSE commandLineOf(summary)

\* The target the decoding stands for: CheckAndExecute treats an empty
\* targetHost as no annotation and "*" as every host.
DecodedTarget(summary) ==
    IF targetHostOf(summary) = <<>> THEN [kind |-> "Broadcast", name |-> <<>>]
    ELSE IF targetHostOf(summary) = <<"*">> THEN [kind |-> "Wildcard", name |-> <<"*">>]
    ELSE [kind |-> "Host", name |-> targetHostOf(summary)]

\* TargetSkips taking the text after '@' for a host name, ':' or no ':'
TargetSkipsAtName(summary, hostname) ==
    /\ HasPrefix(commandLineOf(summary), <<"@">>)
    /\ TrimPrefix(SplitN2(commandLineOf(summary), <<":">>)[1], <<"@">>)
           \notin {<<>>, hostname, <<"*">>}

\* TargetSkips without the test for "*"
TargetSkipsWildcard(summary, hostname) ==
    /\ Annotated(summary)
    /\ targetHostOf(summary) # <<>>
    /\ targetHostOf(summary) # hostname

\* the `continue` of an entry addressed to another host
TargetSkips(summary, hostname) ==
    /\ Annotated(summary)
    /\ targetHostOf(summary) # <<>>
    /\ targetHostOf(summary) # hostname
    /\ targetHostOf(summary) # <<"*">>

commandOf(summary) ==
    LET cmdParts == Fields(actualCmdOf(summary))
    IN  IF Len(cmdParts) > 0 THEN cmdParts[1] ELSE <<>>

argsOf(summary) ==
    LET cmdParts == Fields(actualCmdOf(summary))
    IN  IF Len(cmdParts) > 1 THEN Join(Tail(cmdParts), <<" ">>) ELSE <<>>

\* AlreadyExecuted looking for the marker at the start of the description only
AlreadyExecutedAtStart(description, hostname) ==
    HasPrefix(description, StartMarker(hostname))

\* the idempotence test: the description holds this host's start marker
AlreadyExecuted(description, hostname) == Contains(description, StartMarker(hostname))

\* ExecuteCommand.  env is what the machine answers: the user name, the
\* working directory, and the shell's error flag and combined output.  The
\* upload command (a file read) is not among the commands of the model.
ExecuteCommand(hostname, command, args, env) ==
    IF command = <<"w","h","o","a","m","i">>
    THEN hostInfo(hostname) \o <<"U","s","e","r",":"," ">> \o env.user
             \o <<"\n","H","o","s","t","n","a","m","e",":"," ">> \o hostname
             \o <<"\n","O","S",":"," ">> \o OsArch
    ELSE IF command = <<"p","w","d">>
    THEN hostInfo(hostname) \o env.dir
    ELSE IF command = <<"e","x","i","t">>
    THEN hostInfo(hostname) \o <<"T","e","r","m","i","n","a","t","i","n","g",".",".",".">>
    ELSE IF env.err
    THEN hostInfo(hostname) \o <<"E","r","r","o","r",":"," ">> \o env.errText
             \o <<"\n">> \o env.output
    ELSE hostInfo(hostname) \o env.output

\* UpdateEventWithOutput's new description
AppendBlock(description, hostname, output) ==
    description \o <<"\n", "\n">> \o StartMarker(hostname) \o <<"\n">> \o output
        \o <<"\n">> \o EndMarker(hostname)

(***************************************************************************)
(* Console: the summary it creates and its reading of a description.       *)
(***************************************************************************)

\* "Meeting from nobody: " + command
CreateSummary(command) == commandPrefix \o <<" ">> \o command

\* InteractiveMode, case "exec": the command it hands to CreateCommand
ExecArgument(input) == Join(Tail(Fields(input)), <<" ">>)

IsStartLine(line) == HasPrefix(line, OutputOpen) /\ HasSuffix(line, <<"]">>)

RECURSIVE HostsOfLines(_)
HostsOfLines(lines) ==
    IF lines = <<>> THEN <<>>
    ELSE (IF IsStartLine(Head(lines))
          THEN <<TrimSuffix(TrimPrefix(Head(lines), OutputOpen), <<"]">>)>>
          ELSE <<>>) \o HostsOfLines(Tail(lines))

getExecutedHosts(description) == HostsOfLines(Split(description, <<"\n">>))

\* outputs[host] = body
MapPut(m, k, v) == [h \in DOMAIN m \cup {k} |-> IF h = k THEN v ELSE m[h]]

\* one line of extractHostOutputs' loop; st = [outputs, currentHost, capturing, output]
ExtractLine(st, line) ==
    LET trimmedLine == TrimSpace(line)
    IN  IF HasPrefix(trimmedLine, OutputOpen) /\ ~HasPrefix(trimmedLine, OutputClose)
        THEN [st EXCEPT !.currentHost = TrimSuffix(TrimPrefix(trimmedLine, OutputOpen), <<"]">>),
                        !.capturing = TRUE,
                        !.output = <<>>]
        ELSE IF HasPrefix(trimmedLine, OutputClose)
        THEN [st EXCEPT !.outputs = IF st.capturing /\ st.currentHost # <<>>
                                    THEN MapPut(st.outputs, st.currentHost, st.output)
                                    ELSE st.outputs,
                        !.capturing = FALSE,
                        !.currentHost = <<>>]
        ELSE IF st.capturing
        THEN [st EXCEPT !.output = (IF Len(st.output) > 0 THEN st.output \o <<"\n">>
                                    ELSE st.output) \o line]
        ELSE st

RECURSIVE ExtractLines(_, _)
ExtractLines(st, lines) ==
    IF lines = <<>> THEN st ELSE ExtractLines(ExtractLine(st, Head(lines)), Tail(lines))

extractHostOutputs(description) ==
    ExtractLines([outputs |-> <<>>, currentHost |-> <<>>, capturing |-> FALSE,
                  output |-> <<>>],
                 Split(description, <<"\n">>)).outputs

\* extractHostOutputs before its loop
ExtractStart == [outputs |-> <<>>, currentHost |-> <<>>, capturing |-> FALSE, output |-> <<>>]

(***************************************************************************)
(* Bounds and inputs of the model.                                         *)
(***************************************************************************)

\* guest processes, each on a host of its own
NumGuests == 3

\* guests running beside the console that creates commands (Spec)
SpecGuests == 2

\* guests running beside the console that creates and clears (SpecClear)
ClearGuests == 1

\* entries the console creates (path 0 is an entry already on the calendar)
MaxEntries == 1

\* executor invocations in one behaviour, all guests together
MaxExecs == 4

Guests == 1..NumGuests

Paths == 0..MaxEntries

NoPath == MaxEntries + 1

\* os.Hostname() of each guest's machine
HostNames == << <<"a">>, <<"A">>, <<"b">>, <<"B">>, <<"c">> >>

Hostname(g) == HostNames[g]

Whoami == <<"w","h","o","a","m","i">>

Pwd == <<"p","w","d">>

Exit == <<"e","x","i","t">>

\* What the operator types after `exec`, with the target it is meant for.
ConsoleCommands ==
    { [kind |-> "Broadcast", name |-> <<>>,      command |-> Whoami],
      [kind |-> "Wildcard",  name |-> <<"*">>,   command |-> <<"@","*",":">> \o Pwd],
      [kind |-> "Host",      name |-> <<"a">>,   command |-> <<"@","a",":">> \o Whoami],
      [kind |-> "Host",      name |-> <<>>,      command |-> <<"@",":">> \o Pwd],
      [kind |-> "Broadcast", name |-> <<>>,      command |-> <<"@","a">>] }

\* What a guest's machine answers to the executor.
Envs ==
    { [user |-> <<"u">>, dir |-> <<"/">>, err |-> FALSE, errText |-> <<>>,
       output |-> StartMarker(<<"a">>) \o <<"\n">>],
      [user |-> <<"u">>, dir |-> <<"/">>, err |-> TRUE,
       errText |-> <<"e","x","i","t"," ","s","t","a","t","u","s"," ","1">>,
       output |-> <<"s","h",":"," ","n","o","t"," ","f","o","u","n","d","\n">>] }

\* the properties of an event the console and the guests read
AllProps == {"SUMMARY", "DESCRIPTION"}

\* An entry of the calendar: the properties its event has (props) and their
\* texts, the empty text standing for a property it does not have.
Absent == [present |-> FALSE, summary |-> <<>>, description |-> <<>>, props |-> {}]

Lunch == <<"L","u","n","c","h">>

\* Entries of other calendar users that may be on the calendar at the start.
ForeignEntries ==
    { [present |-> TRUE, summary |-> <<" ">> \o CreateSummary(Whoami), description |-> <<>>,
       props |-> AllProps],
      [present |-> TRUE, summary |-> Lunch, description |-> StartMarker(<<"x">>),
       props |-> AllProps] }

\* Entries of other calendar users without a DESCRIPTION or without a SUMMARY.
MalformedEntries ==
    { [present |-> TRUE, summary |-> Lunch, description |-> <<>>, props |-> {"SUMMARY"}],
      [present |-> TRUE, summary |-> <<>>, description |-> Lunch, props |-> {"DESCRIPTION"}] }

NoIntent == [kind |-> "None", name |-> <<>>]

\* lines of a description handed to getExecutedHosts and extractHostOutputs
MaxLines == 3

DescriptionLines ==
    { StartMarker(<<"a">>), EndMarker(<<"a">>), EndMarker(<<"b">>), <<"x">>,
      <<" ">> \o StartMarker(<<"b">>) }

Descriptions ==
    { Join(ls, <<"\n">>) : ls \in UNION { [1..n -> DescriptionLines] : n \in 1..MaxLines } }

\* guests serving an entry that the console clears (SpecInFlight)
InFlightGuests == 2

\* guests polling a calendar whose store calls may fail (SpecRetry)
RetryGuests == 1

\* guests running beside the console that lists, gets and clears
ConsoleGuests == 1

\* guests running beside the console in the specification of main's loop
LoopGuests == 1

\* what the operator types in the specification of main's loop
LoopCommands ==
    { [kind |-> "Broadcast", name |-> <<>>, command |-> Exit],
      [kind |-> "Broadcast", name |-> <<>>, command |-> Whoami] }

\* tokens of a command text typed at the console's prompt
MaxTokens == 2

CodecTokens ==
    { <<"l","s">>, <<"-","l">>, <<"@","a",":","l","s">>, <<"a",":","b">>, <<"@","a">> }

CodecTexts == UNION { [1..n -> CodecTokens] : n \in 1..MaxTokens }

CodecTargets ==
    { [kind |-> "Broadcast", name |-> <<>>],
      [kind |-> "Wildcard",  name |-> <<"*">>],
      [kind |-> "Host",      name |-> <<"a">>],
      [kind |-> "Host",      name |-> <<"A"," ","b">>],
      [kind |-> "Host",      name |-> <<"a"," "," ","b">>],
      [kind |-> "Host",      name |-> <<"*">>],
      [kind |-> "Host",      name |-> <<>>] }

\* the help text of InteractiveMode: exec <cmd>, exec @*:<cmd>, exec @host:<cmd>
Annotation(target) ==
    IF target.kind = "Broadcast" THEN <<>>
    ELSE <<"@">> \o target.name \o <<":">>

\* the line the operator types for a command text and a target
ExecLine(target, text) ==
    <<"e","x","e","c"," ">> \o Annotation(target) \o Join(text, <<" ">>)

\* commands whose output a guest writes back
BlockCommands == { Whoami, Pwd, <<"l","s">> }

\* the machine answers of Envs, and one with a domain user and an output
\* of several lines, one of them blank and one indented
BlockEnvs ==
    Envs \cup
    { [user |-> <<"d","\\","u">>, dir |-> <<"/">>, err |-> FALSE, errText |-> <<>>,
       output |-> <<"a",","," ","b","\n","\n"," "," ","c","\n">>] }

(***************************************************************************)
(* State.                                                                  *)
(***************************************************************************)

VARIABLES
    store,       \* the calendar: path -> [present, summary, description]
    nextPath,    \* the next fresh uid of the console
    orgPc,       \* console: "idle" | "clear"
    screen,      \* console: what the last list or get printed
    orgEvents,   \* console: the entries of clear's query still to visit
    pc,          \* guest -> "off" | "start" | "idle" | "loop" | "update" | "put"
                 \*          | "stopped" | "exited"
    events,      \* guest -> the entries of the poll's query still to visit
    out,         \* guest -> the executor's output awaiting write-back
    doc,         \* guest -> the document fetched for the write-back
    intent,      \* history: path -> the target the entry was created for
    execCount,   \* history: guest -> path -> executor invocations
    stored,      \* history: guest -> paths where a put of its block succeeded
    decided,     \* history: guest -> path -> the outcome of its latest visit
    signal,      \* guest -> an interrupt is waiting in sigChan
    timer,       \* guest -> the exit entries whose delayed self-delete is sleeping
    codec,       \* a command on its way from the console's prompt to a guest's executor
    blocks,      \* a description under write-back, with the blocks appended to it
    reading      \* a description under the console's reading, line by line

vars == <<store, nextPath, orgPc, orgEvents, screen, pc, events, out, doc,
          intent, execCount, stored, decided, signal, timer, codec, blocks, reading>>

orgVars == <<nextPath, orgPc, orgEvents, screen, intent>>

NoScreen == [op |-> "none", rows |-> <<>>, outputs |-> <<>>]

guestVars == <<pc, events, out, doc, execCount, stored, decided, signal, timer>>

loopVars == <<signal, timer>>

pureVars == <<codec, blocks, reading>>

systemVars == <<store, orgVars, guestVars>>

NoCommand == [phase |-> "idle", target |-> NoIntent, text |-> <<>>, summary |-> <<>>,
              decoded |-> [target |-> NoIntent, command |-> <<>>, args |-> <<>>]]

NoBlocks == [description |-> <<>>, appended |-> <<>>]

NoReading == [phase |-> "idle", description |-> <<>>, lines |-> <<>>, st |-> ExtractStart,
              hosts |-> <<>>]

\* The state once the guests in running have started (NewGuest) on a calendar
\* that holds calendar, the console having used the uids below next.
Started(running, calendar, next, intents) ==
    /\ store = calendar
    /\ nextPath = next
    /\ orgPc = "idle"
    /\ orgEvents = <<>>
    /\ screen = NoScreen
    /\ pc = [g \in Guests |-> IF g \in running THEN "start" ELSE "off"]
    /\ events = [g \in Guests |-> <<>>]
    /\ out = [g \in Guests |-> <<>>]
    /\ doc = [g \in Guests |-> Absent]
    /\ intent = intents
    /\ execCount = [g \in Guests |-> [p \in Paths |-> 0]]
    /\ stored = [g \in Guests |-> {}]
    /\ decided = [g \in Guests |-> [p \in Paths |-> "none"]]
    /\ signal = [g \in Guests |-> FALSE]
    /\ timer = [g \in Guests |-> {}]
    /\ codec = NoCommand
    /\ blocks = NoBlocks
    /\ reading = NoReading

\* a calendar that holds at most an entry of another user
Init ==
    \E f \in ForeignEntries \cup {Absent} :
        Started(1..SpecGuests, [p \in Paths |-> IF p = 0 THEN f ELSE Absent], 1,
                [p \in Paths |-> NoIntent])

InitClear ==
    \E f \in ForeignEntries \cup {Absent} :
        Started(1..ClearGuests, [p \in Paths |-> IF p = 0 THEN f ELSE Absent], 1,
                [p \in Paths |-> NoIntent])

\* every guest runs, and the console has created one broadcast command
InitRace ==
    Started(Guests,
            [p \in Paths |-> IF p = 1
                             THEN [present |-> TRUE, summary |-> CreateSummary(Pwd),
                                   description |-> <<>>, props |-> AllProps]
                             ELSE Absent],
            2,
            [p \in Paths |-> IF p = 1 THEN [kind |-> "Broadcast", name |-> <<>>]
                             ELSE NoIntent])

\* the result of a calendar query over the paths in S, in path order
RECURSIVE QueryResult(_, _)
QueryResult(S, p) ==
    IF p > MaxEntries THEN <<>>
    ELSE (IF p \in S /\ store[p].present
          THEN <<[path |-> p, summary |-> store[p].summary,
                  description |-> store[p].description, props |-> store[p].props]>>
          ELSE <<>>) \o QueryResult(S, p + 1)

RECURSIVE SumExecs(_, _)
SumExecs(g, p) ==
    IF g > NumGuests THEN 0
    ELSE IF p > MaxEntries THEN SumExecs(g + 1, 0)
    ELSE execCount[g][p] + SumExecs(g, p + 1)

TotalExecs == SumExecs(1, 0)

(***************************************************************************)
(* Console.                                                                *)
(***************************************************************************)

\* CreateCommand: a fresh uid, and the PUT of the new entry succeeds or fails
CreateCommand(k) ==
    /\ orgPc = "idle"
    /\ nextPath <= MaxEntries
    /\ nextPath' = nextPath + 1
    /\ \/ /\ store' = [store EXCEPT ![nextPath] =
                          [present |-> TRUE, summary |-> CreateSummary(k.command),
                           description |-> <<>>, props |-> AllProps]]
          /\ intent' = [intent EXCEPT ![nextPath] = [kind |-> k.kind, name |-> k.name]]
       \/ UNCHANGED <<store, intent>>
    /\ UNCHANGED <<orgPc, orgEvents, screen, guestVars, pureVars>>

\* ClearExecutedEvents: the query over every VEVENT of the calendar
ClearQuery ==
    /\ orgPc = "idle"
    /\ \/ /\ QueryResult(Paths, 0) # <<>>
          /\ orgPc' = "clear"
          /\ orgEvents' = QueryResult(Paths, 0)
       \/ UNCHANGED <<orgPc, orgEvents>>
    /\ UNCHANGED <<store, nextPath, screen, intent, guestVars, pureVars>>

\* the test ClearExecutedEvents makes on one entry of its query
ClearSelects(event) == Len(getExecutedHosts(ConsoleDescription(event.description))) > 0

\* vevent.Props.Get(name).Value: Get returns nil for a property the event
\* does not have, and the read of Value through nil panics
Panics(event, names) == ~(names \subseteq event.props)

\* one round of ClearExecutedEvents' loop: the read of the description
\* panics, or RemoveAll succeeds or fails
ClearStep ==
    /\ orgPc = "clear"
    /\ LET event == Head(orgEvents)
       IN  \/ /\ Panics(event, {"DESCRIPTION"})
              /\ orgPc' = "crashed"
              /\ UNCHANGED <<store, orgEvents>>
           \/ /\ ~Panics(event, {"DESCRIPTION"})
              /\ \/ /\ ClearSelects(event)
                    /\ store[event.path].present
                    /\ store' = [store EXCEPT ![event.path] = Absent]
                 \/ /\ ClearSelects(event)
                    /\ UNCHANGED store
                 \/ /\ ~ClearSelects(event)
                    /\ UNCHANGED store
              /\ orgEvents' = Tail(orgEvents)
              /\ orgPc' = IF Tail(orgEvents) = <<>> THEN "idle" ELSE "clear"
    /\ UNCHANGED <<nextPath, screen, intent, guestVars, pureVars>>

\* the rows ListEvents prints: the entries with the prefix and their hosts
RECURSIVE ListRows(_)
ListRows(found) ==
    IF found = <<>> THEN <<>>
    ELSE (IF HasPrefix(Head(found).summary, commandPrefix)
          THEN <<[path  |-> Head(found).path,
                  hosts |-> getExecutedHosts(ConsoleDescription(Head(found).description))]>>
          ELSE <<>>) \o ListRows(Tail(found))

\* ListEvents: the query fails, or the loop over its result prints the rows
\* or panics at an event without SUMMARY or DESCRIPTION
ListEvents ==
    /\ orgPc = "idle"
    /\ LET found == QueryResult(Paths, 0)
       IN  \/ UNCHANGED <<orgPc, screen>>
           \/ /\ \E i \in 1..Len(found) : Panics(found[i], AllProps)
              /\ orgPc' = "crashed"
              /\ UNCHANGED screen
           \/ /\ \A i \in 1..Len(found) : ~Panics(found[i], AllProps)
              /\ screen' = [op |-> "list", rows |-> ListRows(found), outputs |-> <<>>]
              /\ UNCHANGED orgPc
    /\ UNCHANGED <<store, nextPath, orgEvents, intent, guestVars, pureVars>>

\* GetEventOutput for the uid of path: the query fails, finds nothing, or
\* finds the entry, whose outputs are printed unless the reads panic
GetEventOutput(path) ==
    /\ orgPc = "idle"
    /\ LET found == QueryResult({path}, 0)
       IN  \/ UNCHANGED <<orgPc, screen>>
           \/ /\ found = <<>>
              /\ screen' = [op |-> "get", rows |-> <<>>, outputs |-> <<>>]
              /\ UNCHANGED orgPc
           \/ /\ found # <<>>
              /\ Panics(found[1], AllProps)
              /\ orgPc' = "crashed"
              /\ UNCHANGED screen
           \/ /\ found # <<>>
              /\ ~Panics(found[1], AllProps)
              /\ screen' = [op |-> "get", rows |-> <<>>,
                            outputs |-> extractHostOutputs(
                                            ConsoleDescription(found[1].description))]
              /\ UNCHANGED orgPc
    /\ UNCHANGED <<store, nextPath, orgEvents, intent, guestVars, pureVars>>

(***************************************************************************)
(* Guest.                                                                  *)
(***************************************************************************)

\* CheckAndExecute leaving its loop at once, whatever entries remain
AdvanceReturning(g) ==
    /\ events' = [events EXCEPT ![g] = <<>>]
    /\ pc' = [pc EXCEPT ![g] = "idle"]

\* the loop of CheckAndExecute moves on to the next entry of its query
Advance(g) ==
    /\ events' = [events EXCEPT ![g] = Tail(events[g])]
    /\ pc' = [pc EXCEPT ![g] = IF Tail(events[g]) = <<>> THEN "idle" ELSE "loop"]

\* main's select: the cases that are ready, of which Go takes any one
SelectCases(tickReady, signalReady) ==
    (IF tickReady THEN {"tick"} ELSE {}) \cup (IF signalReady THEN {"signal"} ELSE {})

\* main calls CheckAndExecute once before its loop, and then at every tick
\* its select takes.  CheckAndExecute: the query for the entries of the next
\* 24 hours, which returns them or fails.  Every entry of the model lies in
\* that window: a behaviour spans less than the 31 minutes after which a
\* created entry leaves it.
Poll(g) ==
    /\ \/ pc[g] = "start"
       \/ pc[g] = "idle" /\ "tick" \in SelectCases(TRUE, signal[g])
    /\ LET found == QueryResult(Paths, 0)
       IN  \/ /\ events' = [events EXCEPT ![g] = found]
              /\ pc' = [pc EXCEPT ![g] = IF found = <<>> THEN "idle" ELSE "loop"]
           \/ /\ pc' = [pc EXCEPT ![g] = "idle"]
              /\ UNCHANGED events
    /\ UNCHANGED <<store, orgVars, pureVars, loopVars, out, doc, execCount, stored, decided>>

\* an interrupt or termination signal arrives (signal.Notify, a channel of one)
Signal(g) ==
    /\ pc[g] \notin {"off", "stopped", "exited"}
    /\ ~signal[g]
    /\ signal' = [signal EXCEPT ![g] = TRUE]
    /\ UNCHANGED <<store, orgVars, pureVars, pc, events, out, doc, execCount, stored,
                   decided, timer>>

\* main's select takes the signal: main returns
Stop(g) ==
    /\ pc[g] = "idle"
    /\ \E tickReady \in BOOLEAN : "signal" \in SelectCases(tickReady, signal[g])
    /\ pc' = [pc EXCEPT ![g] = "stopped"]
    /\ UNCHANGED <<store, orgVars, pureVars, loopVars, events, out, doc, execCount,
                   stored, decided>>

\* the goroutine of the exit command wakes up: os.Remove and os.Exit(0).
\* The calls to the store have no deadline, so the two seconds it sleeps may
\* end at any step of the main loop.
SelfDelete(g) ==
    /\ timer[g] # {}
    /\ pc[g] \notin {"stopped", "exited"}
    /\ pc' = [pc EXCEPT ![g] = "exited"]
    /\ UNCHANGED <<store, orgVars, pureVars, loopVars, events, out, doc, execCount,
                   stored, decided>>

\* SkipReason looking for the prefix anywhere in the summary
SkipReasonPrefixAnywhere(event, hostname) ==
    IF ~Contains(event.summary, commandPrefix) THEN "skipPrefix"
    ELSE IF AlreadyExecuted(event.description, hostname) THEN "skipMarker"
    ELSE IF TargetSkips(event.summary, hostname) THEN "skipTarget"
    ELSE "exec"

\* the three tests of the loop body, in the code's order
SkipReason(event, hostname) ==
    IF ~HasPrefix(event.summary, commandPrefix) THEN "skipPrefix"
    ELSE IF AlreadyExecuted(event.description, hostname) THEN "skipMarker"
    ELSE IF TargetSkips(event.summary, hostname) THEN "skipTarget"
    ELSE "exec"

\* one round of CheckAndExecute's loop, up to the executor's return
ProcessEvent(g) ==
    /\ pc[g] = "loop"
    /\ LET event == Head(events[g])
           op == SkipReason(event, Hostname(g))
       IN  /\ decided' = [decided EXCEPT ![g][event.path] = op]
           /\ \/ /\ op # "exec"
                 /\ Advance(g)
                 /\ UNCHANGED <<out, execCount, timer>>
              \/ /\ op = "exec"
                 /\ TotalExecs < MaxExecs
                 /\ \E env \in Envs :
                       out' = [out EXCEPT ![g] =
                                  ExecuteCommand(Hostname(g), commandOf(event.summary),
                                                 argsOf(event.summary), env)]
                 /\ execCount' = [execCount EXCEPT ![g][event.path] = @ + 1]
                 /\ timer' = IF commandOf(event.summary) = Exit
                             THEN [timer EXCEPT ![g] = @ \cup {event.path}]
                             ELSE timer
                 /\ pc' = [pc EXCEPT ![g] = "update"]
                 /\ UNCHANGED events
    /\ UNCHANGED <<store, orgVars, pureVars, signal, doc, stored>>

\* UpdateEventWithOutput: GetCalendarObject returns the document or fails
Fetch(g) ==
    /\ pc[g] = "update"
    /\ LET path == Head(events[g]).path
       IN  \/ /\ store[path].present
              /\ doc' = [doc EXCEPT ![g] = store[path]]
              /\ pc' = [pc EXCEPT ![g] = "put"]
              /\ UNCHANGED <<events, out>>
           \/ /\ Advance(g)
              /\ out' = [out EXCEPT ![g] = <<>>]
              /\ UNCHANGED doc
    /\ UNCHANGED <<store, orgVars, pureVars, loopVars, execCount, stored, decided>>

\* the document PutCalendarObject sends: the fetched one with the block appended
NewDocument(fetched, hostname, output) ==
    [fetched EXCEPT !.description = AppendBlock(fetched.description, hostname, output),
                    !.props = @ \cup {"DESCRIPTION"}]

\* a PUT that adds the document's description to the stored one
PutCalendarObjectAdding(path, document) ==
    [store EXCEPT ![path] =
        [document EXCEPT !.description = store[path].description \o document.description]]

\* the store after a PUT of document at path: the whole resource is replaced
PutCalendarObject(path, document) == [store EXCEPT ![path] = document]

\* UpdateEventWithOutput: PutCalendarObject succeeds or fails
Put(g) ==
    /\ pc[g] = "put"
    /\ LET path == Head(events[g]).path
       IN  \/ /\ store' = PutCalendarObject(path, NewDocument(doc[g], Hostname(g), out[g]))
              /\ stored' = [stored EXCEPT ![g] = @ \cup {path}]
           \/ UNCHANGED <<store, stored>>
    /\ Advance(g)
    /\ out' = [out EXCEPT ![g] = <<>>]
    /\ doc' = [doc EXCEPT ![g] = Absent]
    /\ UNCHANGED <<orgVars, pureVars, loopVars, execCount, decided>>

GuestStep ==
    \/ \E g \in Guests : Poll(g)
    \/ \E g \in Guests : ProcessEvent(g)
    \/ \E g \in Guests : Fetch(g)
    \/ \E g \in Guests : Put(g)

\* the console creates commands, the guests serve them
Next ==
    \/ \E k \in ConsoleCommands : CreateCommand(k)
    \/ GuestStep

Spec == Init /\ [][Next]_vars

\* the console creates and clears, the guests serve
NextClear ==
    \/ \E k \in ConsoleCommands : CreateCommand(k)
    \/ ClearQuery
    \/ ClearStep
    \/ GuestStep

SpecClear == InitClear /\ [][NextClear]_vars

\* the guests race on the entries of the calendar
NextRace == GuestStep

SpecRace == InitRace /\ [][NextRace]_vars

\* no call to the store fails in this step: no query and no GET returns an
\* error, and every PUT stores its document
StoreAnswers ==
    /\ nextPath' # nextPath => store' # store
    /\ \A g \in Guests :
          /\ ~(pc[g] = "start" /\ pc'[g] = "idle" /\ QueryResult(Paths, 0) # <<>>)
          /\ ~(pc[g] = "update" /\ pc'[g] \in {"loop", "idle"})
          /\ ~(pc[g] = "put" /\ pc'[g] \in {"loop", "idle"} /\ store' = store)

\* a step of guest g while the store answers every call
GuestStepAnswered(g) ==
    /\ Poll(g) \/ ProcessEvent(g) \/ Fetch(g) \/ Put(g)
    /\ StoreAnswers

\* the console creates commands and the guests serve them on a store that
\* never fails; every guest's ticker keeps its loop going
NextFair ==
    \/ \E k \in ConsoleCommands : CreateCommand(k) /\ StoreAnswers
    \/ \E g \in Guests : GuestStepAnswered(g)

\* ProcessEvent(g) can be taken: the guest is inside the loop over the
\* events of its poll (the bound on executions is the model's)
ProcessEventEnabled(g) ==
    /\ pc[g] = "loop"
    /\ SkipReason(Head(events[g]), Hostname(g)) = "exec" => TotalExecs < MaxExecs

\* The guests on a store that never fails, under fair scheduling: a guest
\* is a running process whose ticker fires every pollInterval and whose
\* calls to the store return, so each of its steps that stays possible is
\* taken.  The condition on ProcessEvent is weak fairness written out,
\* with ProcessEventEnabled for ENABLED <<ProcessEvent(g)>>_vars.
SpecFair ==
    /\ Init
    /\ [][NextFair]_vars
    /\ \A g \in Guests :
          /\ WF_vars(Poll(g) /\ StoreAnswers)
          /\ WF_vars(Fetch(g) /\ StoreAnswers)
          /\ WF_vars(Put(g) /\ StoreAnswers)
          /\ []<>~ProcessEventEnabled(g) \/ []<><<ProcessEvent(g)>>_vars

\* the guests serve one broadcast command while the console clears
InitInFlight ==
    Started(1..InFlightGuests,
            [p \in Paths |-> IF p = 1
                             THEN [present |-> TRUE, summary |-> CreateSummary(Pwd),
                                   description |-> <<>>, props |-> AllProps]
                             ELSE Absent],
            2,
            [p \in Paths |-> IF p = 1 THEN [kind |-> "Broadcast", name |-> <<>>]
                             ELSE NoIntent])

NextInFlight ==
    \/ ClearQuery
    \/ ClearStep
    \/ GuestStep

SpecInFlight == InitInFlight /\ [][NextInFlight]_vars

\* a guest polls a calendar of two commands; every call to the store may fail
InitRetry ==
    Started(1..RetryGuests,
            [p \in Paths |-> [present |-> TRUE, props |-> AllProps, description |-> <<>>,
                              summary |-> IF p = 0 THEN CreateSummary(Whoami)
                                          ELSE CreateSummary(<<"@","*",":","l","s">>)]],
            MaxEntries + 1,
            [p \in Paths |-> IF p = 0 THEN [kind |-> "Broadcast", name |-> <<>>]
                             ELSE [kind |-> "Wildcard", name |-> <<"*">>]])

NextRetry == GuestStep

SpecRetry == InitRetry /\ [][NextRetry]_vars

\* the console lists, gets and clears on a calendar that may hold an entry
\* of another user without SUMMARY or DESCRIPTION; one guest serves
InitConsole ==
    \E f \in MalformedEntries \cup ForeignEntries :
        Started(1..ConsoleGuests, [p \in Paths |-> IF p = 0 THEN f ELSE Absent], 1,
                [p \in Paths |-> NoIntent])

NextConsole ==
    \/ \E k \in ConsoleCommands : CreateCommand(k)
    \/ ListEvents
    \/ \E path \in Paths : GetEventOutput(path)
    \/ ClearQuery
    \/ ClearStep
    \/ GuestStep

SpecConsole == InitConsole /\ [][NextConsole]_vars

\* main's loop: the console creates commands, exit among them, and signals
\* arrive at the guests
InitLoop ==
    Started(1..LoopGuests, [p \in Paths |-> Absent], 0, [p \in Paths |-> NoIntent])

NextLoop ==
    \/ \E k \in LoopCommands : CreateCommand(k)
    \/ GuestStep
    \/ \E g \in Guests : Signal(g)
    \/ \E g \in Guests : Stop(g)
    \/ \E g \in Guests : SelfDelete(g)

SpecLoop == InitLoop /\ [][NextLoop]_vars

\* no guest and no console run: only the codec is exercised
Quiet ==
    /\ store = [p \in Paths |-> Absent]
    /\ nextPath = 1
    /\ orgPc = "idle"
    /\ orgEvents = <<>>
    /\ screen = NoScreen
    /\ pc = [g \in Guests |-> "off"]
    /\ events = [g \in Guests |-> <<>>]
    /\ out = [g \in Guests |-> <<>>]
    /\ doc = [g \in Guests |-> Absent]
    /\ intent = [p \in Paths |-> NoIntent]
    /\ execCount = [g \in Guests |-> [p \in Paths |-> 0]]
    /\ stored = [g \in Guests |-> {}]
    /\ decided = [g \in Guests |-> [p \in Paths |-> "none"]]
    /\ signal = [g \in Guests |-> FALSE]
    /\ timer = [g \in Guests |-> {}]

\* the operator has typed a command text for a target
InitCodec ==
    /\ Quiet
    /\ \E target \in CodecTargets, text \in CodecTexts :
          codec = [NoCommand EXCEPT !.phase = "typed", !.target = target, !.text = text]
    /\ blocks = NoBlocks
    /\ reading = NoReading

\* InteractiveMode and CreateCommand: the summary of the typed line
CodecCreate ==
    /\ codec.phase = "typed"
    /\ codec' = [codec EXCEPT
                    !.phase = "created",
                    !.summary = CreateSummary(ExecArgument(ExecLine(codec.target, codec.text)))]
    /\ UNCHANGED <<systemVars, blocks, reading>>

\* CheckAndExecute: the parsing of the summary
CodecDecode ==
    /\ codec.phase = "created"
    /\ HasPrefix(codec.summary, commandPrefix)
    /\ codec' = [codec EXCEPT
                    !.phase = "decoded",
                    !.decoded = [target  |-> DecodedTarget(codec.summary),
                                 command |-> commandOf(codec.summary),
                                 args    |-> argsOf(codec.summary)]]
    /\ UNCHANGED <<systemVars, blocks, reading>>

NextCodec == CodecCreate \/ CodecDecode

SpecCodec == InitCodec /\ [][NextCodec]_vars

\* an entry the console has just created: the description is empty
InitBlocks ==
    /\ Quiet
    /\ codec = NoCommand
    /\ blocks = NoBlocks
    /\ reading = NoReading

\* ExecuteCommand and UpdateEventWithOutput of guest g, the GET and the PUT
\* succeeding, on an entry that has no block of g's host yet
AppendOutput(g, command, env) ==
    /\ \A i \in 1..Len(blocks.appended) : blocks.appended[i].host # Hostname(g)
    /\ LET output == ExecuteCommand(Hostname(g), command, <<>>, env)
       IN  blocks' = [description |-> AppendBlock(blocks.description, Hostname(g), output),
                      appended    |-> Append(blocks.appended,
                                             [host |-> Hostname(g), body |-> output])]
    /\ UNCHANGED <<systemVars, codec, reading>>

NextBlocks == \E g \in Guests, command \in BlockCommands, env \in BlockEnvs :
                  AppendOutput(g, command, env)

SpecBlocks == InitBlocks /\ [][NextBlocks]_vars

\* the console is handed a description
InitExtract ==
    /\ Quiet
    /\ codec = NoCommand
    /\ blocks = NoBlocks
    /\ \E description \in Descriptions :
          reading = [NoReading EXCEPT !.phase = "given", !.description = description]

\* getExecutedHosts on the description, and extractHostOutputs up to its loop
ReadStart ==
    /\ reading.phase = "given"
    /\ reading' = [reading EXCEPT !.phase = "reading",
                                  !.lines = Split(reading.description, <<"\n">>),
                                  !.hosts = getExecutedHosts(reading.description)]
    /\ UNCHANGED <<systemVars, codec, blocks>>

\* one round of extractHostOutputs' loop
ReadLine ==
    /\ reading.phase = "reading"
    /\ reading' = [reading EXCEPT
                      !.st = ExtractLine(reading.st, Head(reading.lines)),
                      !.lines = Tail(reading.lines),
                      !.phase = IF Tail(reading.lines) = <<>> THEN "done" ELSE "reading"]
    /\ UNCHANGED <<systemVars, codec, blocks>>

NextExtract == ReadStart \/ ReadLine

SpecExtract == InitExtract /\ [][NextExtract]_vars

(***************************************************************************)
(* Properties.                                                             *)
(***************************************************************************)

\* guest g takes a round of CheckAndExecute's loop in this step
Visits(g) == pc[g] = "loop" /\ (pc'[g] = "update" \/ events'[g] # events[g])

\* guest g's PUT succeeds in this step
PutsDocument(g) == pc[g] = "put" /\ pc'[g] # "put" /\ store' # store

Marked(description, g) == Contains(description, StartMarker(Hostname(g)))

\* C1: every guest invokes the executor at most once for an entry.
C1_ExecutedAtMostOnce ==
    \A g \in Guests : \A p \in Paths : execCount[g][p] <= 1

\* C2: the description of an entry holds at most one start marker per host.
C2_OneStartMarkerPerHost ==
    \A p \in Paths : \A g \in Guests :
        store[p].present =>
            Occurrences(store[p].description, StartMarker(Hostname(g))) <= 1

\* C3: a PUT replaces the whole document: a block of another host that is in
\* the store but neither in the copy the writer fetched nor in the writer's
\* own output is absent from the entry after the writer's PUT.
C3_PutDropsUnseenBlock ==
    [][\A g \in Guests : \A h \in Guests :
          (/\ PutsDocument(g)
           /\ h # g
           /\ Marked(store[Head(events[g]).path].description, h)
           /\ ~Marked(doc[g].description, h)
           /\ ~Marked(out[g], h))
          => ~Marked(store'[Head(events[g]).path].description, h)]_vars

\* C3 (witness): a host's PUT of its block succeeded, another host has written
\* the entry, and the first host's block is no longer in the description.
C3_LostUpdate ==
    \E g \in Guests : \E h \in Guests : \E p \in Paths :
        /\ g # h
        /\ p \in stored[g] /\ p \in stored[h]
        /\ store[p].present
        /\ ~Marked(store[p].description, h)
        /\ Marked(store[p].description, g)

\* the hosts a target stands for, as the claim states them
TargetedAt(target, hostname) ==
    \/ target.kind \in {"Broadcast", "Wildcard"}
    \/ target.kind = "Host" /\ target.name = hostname

\* the same, an annotation with an empty name standing for every host
TargetedAtOrUnnamed(target, hostname) ==
    \/ TargetedAt(target, hostname)
    \/ target.kind = "Host" /\ target.name = <<>>

\* C4 (as claimed): an entry with the prefix and without a block of the local
\* host is executed iff it is Broadcast, Wildcard or Host(local hostname).
C4_ExecutesIffTargeted ==
    [][\A g \in Guests :
          (/\ Visits(g)
           /\ HasPrefix(Head(events[g]).summary, commandPrefix)
           /\ ~Marked(Head(events[g]).description, g))
          => (pc'[g] = "update"
                 <=> TargetedAt(intent[Head(events[g]).path], Hostname(g)))]_vars

\* C4 (amended): an entry with the prefix and without a block of the local
\* host is executed iff it is Broadcast, Wildcard, Host(local hostname) or
\* carries an annotation with an empty name ("@:").
C4_ExecutesIffTargetedOrUnnamed ==
    [][\A g \in Guests :
          (/\ Visits(g)
           /\ HasPrefix(Head(events[g]).summary, commandPrefix)
           /\ ~Marked(Head(events[g]).description, g))
          => (pc'[g] = "update"
                 <=> TargetedAtOrUnnamed(intent[Head(events[g]).path], Hostname(g)))]_vars

\* C4 (witness): an entry for host "a" was executed and answered by the guest
\* on "a" and passed over by the guest on "A".
C4_OtherHostPassedOver ==
    \E p \in Paths :
        /\ intent[p] = [kind |-> "Host", name |-> <<"a">>]
        /\ p \in stored[1]
        /\ decided[2][p] = "skipTarget"
        /\ execCount[2][p] = 0

\* C5: a visit of an entry whose polled description holds the local host's
\* start marker calls no executor, fetches and puts nothing, and leaves the
\* store as it is.
C5_MarkedEntryUntouched ==
    [][\A g \in Guests :
          (Visits(g) /\ Marked(Head(events[g]).description, g))
          => /\ store' = store
             /\ execCount' = execCount
             /\ pc'[g] \in {"loop", "idle"}
             /\ events'[g] = Tail(events[g])
             /\ out' = out /\ doc' = doc]_vars

\* C5 (witness): a guest has passed over an entry because of its own marker.
C5_SkippedOwnMarker ==
    \E g \in Guests : \E p \in Paths :
        decided[g][p] = "skipMarker" /\ p \in stored[g] /\ execCount[g][p] = 1

\* C6: clear deletes only command entries that hold a start marker.
C6_ClearDeletesOnlyExecutedCommands ==
    [][\A p \in Paths :
          (store[p].present /\ ~store'[p].present)
          => /\ HasPrefix(store[p].summary, commandPrefix)
             /\ Len(getExecutedHosts(ConsoleDescription(store[p].description))) > 0]_vars

\* C7: a guest never executes, fetches or writes an entry whose summary does
\* not begin with the prefix.
C7_ForeignEntryUntouched ==
    \A p \in Paths :
        (store[p].present /\ ~HasPrefix(store[p].summary, commandPrefix))
        => \A g \in Guests :
              /\ execCount[g][p] = 0
              /\ p \notin stored[g]
              /\ pc[g] \in {"update", "put"} => Head(events[g]).path # p
              /\ decided[g][p] \in {"none", "skipPrefix"}

\* C7 (witness): a guest has passed over an entry whose summary holds the
\* prefix, but not at its start.
C7_SkippedForeignEntry ==
    \E g \in Guests : \E p \in Paths :
        /\ store[p].present
        /\ Contains(store[p].summary, commandPrefix)
        /\ decided[g][p] = "skipPrefix"

\* C8: a guest passes an entry over as already executed only if it appended a
\* block to it itself, and the console reports for a created entry only hosts
\* that appended a block to it.
C8_MarkersOnlyFromOwnBlocks ==
    \A p \in Paths :
        /\ \A g \in Guests : decided[g][p] = "skipMarker" => p \in stored[g]
        /\ (store[p].present /\ intent[p] # NoIntent)
           => LET description == ConsoleDescription(store[p].description)
                  reported == getExecutedHosts(description)
              IN  /\ \A i \in 1..Len(reported) :
                        \E g \in Guests : Hostname(g) = reported[i] /\ p \in stored[g]
                  /\ \A h \in DOMAIN extractHostOutputs(description) :
                        \E g \in Guests : Hostname(g) = h /\ p \in stored[g]

\* the command text and the target that went into codec came out of it
RoundTrip ==
    /\ codec.decoded.target = codec.target
    /\ codec.decoded.command = codec.text[1]
    /\ codec.decoded.args = Join(Tail(codec.text), <<" ">>)

\* C9 as stated: decoding the summary the console builds yields the command,
\* the arguments and the target that were encoded, for every command text and
\* every target Broadcast, Wildcard or Host(x) with x free of ':'.
C9_RoundTrip ==
    (codec.phase = "decoded" /\ ~Contains(codec.target.name, <<":">>)) => RoundTrip

\* every whitespace of name is a single space between two other characters
SingleSpaced(name) == Join(Fields(name), <<" ">>) = name

\* a Broadcast text that reads as an annotation: '@' first and a ':' after it
ReadsAsAnnotation(text) ==
    /\ HasPrefix(Join(text, <<" ">>), <<"@">>)
    /\ Contains(Join(text, <<" ">>), <<":">>)

\* C9 amended: the round trip holds for Wildcard, for Host(x) with x free
\* of ':', not empty, not "*" and single-spaced, and for Broadcast with a
\* command text that does not start with '@' and contain a ':'.
C9_RoundTripOfDistinctTargets ==
    (/\ codec.phase = "decoded"
     /\ codec.target.kind = "Host"
            => /\ ~Contains(codec.target.name, <<":">>)
               /\ codec.target.name # <<>>
               /\ codec.target.name # <<"*">>
               /\ SingleSpaced(codec.target.name)
     /\ codec.target.kind = "Broadcast" => ~ReadsAsAnnotation(codec.text))
    => RoundTrip

\* C9 witness: a command with an argument for a named host has been decoded
C9_HostCommandDecoded ==
    /\ codec.phase = "decoded"
    /\ codec.target = [kind |-> "Host", name |-> <<"A"," ","b">>]
    /\ Len(codec.text) = 2
    /\ codec.decoded.target = codec.target
    /\ codec.decoded.args = codec.text[2]

\* C10: after appends by distinct hosts onto an empty description,
\* extractHostOutputs returns for each host exactly the body it appended and
\* getExecutedHosts returns the host names in the order of the appends.
C10_ExtractReturnsAppended ==
    LET description == ConsoleDescription(blocks.description)
        outputs == extractHostOutputs(description)
    IN  /\ getExecutedHosts(description)
              = [i \in 1..Len(blocks.appended) |-> blocks.appended[i].host]
        /\ DOMAIN outputs = { blocks.appended[i].host : i \in 1..Len(blocks.appended) }
        /\ \A i \in 1..Len(blocks.appended) :
              outputs[blocks.appended[i].host] = blocks.appended[i].body

\* guest g's process ends in this step: main returns or os.Exit is called
Terminates(g) == pc'[g] \in {"stopped", "exited"} /\ pc[g] \notin {"stopped", "exited"}

\* guest g has executed the entry at path and its write-back has not returned
InProgress(g, path) ==
    /\ pc[g] \in {"update", "put"}
    /\ Head(events[g]).path = path

\* C11: when the delayed self-delete of an exit command ends the process, the
\* write-back of the exit entry's output block has completed.
C11_ResponseBeforeExit ==
    [][\A g \in Guests :
          (pc'[g] = "exited" /\ pc[g] # "exited")
              => \A path \in timer[g] : ~InProgress(g, path)]_vars

\* C12: once a signal has been delivered, the guest's select at the wait
\* between ticks starts no poll cycle, a pending tick notwithstanding.
C12_NoPollAfterSignal ==
    [][\A g \in Guests :
          (signal[g] /\ pc[g] = "idle") => pc'[g] # "loop"]_vars

\* C13: entries without SUMMARY or DESCRIPTION never make the console or a
\* guest terminate, and no guest executes them.
C13_MalformedEntriesSkipped ==
    /\ orgPc # "crashed"
    /\ \A g \in Guests, p \in Paths :
          (store[p].present /\ store[p].props # AllProps) => execCount[g][p] = 0

\* C14: a guest process terminates only between poll cycles, never between
\* an executor invocation and the end of the matching write-back attempt.
C14_TerminatesBetweenPollCycles ==
    [][\A g \in Guests : Terminates(g) => pc[g] = "idle"]_vars

\* the line is an end marker, as extractHostOutputs recognises one
IsEndLine(line) == HasPrefix(TrimSpace(line), OutputClose)

\* C15: while extractHostOutputs captures the body of host h, only the end
\* marker of h ends the capture and commits the body under h; another host's
\* end marker commits nothing, and neither does one seen while not capturing.
C15_OnlyMatchingEndMarkerCommits ==
    [][(reading.phase = "reading" /\ IsEndLine(Head(reading.lines)))
          => IF /\ reading.st.capturing
                /\ TrimSpace(Head(reading.lines)) = EndMarker(reading.st.currentHost)
             THEN /\ reading'.st.outputs
                        = MapPut(reading.st.outputs, reading.st.currentHost, reading.st.output)
                  /\ ~reading'.st.capturing
             ELSE /\ reading'.st.outputs = reading.st.outputs
                  /\ reading'.st.capturing = reading.st.capturing]_vars

\* C17: every host that is a key of extractHostOutputs(description) is also
\* returned by getExecutedHosts(description).
C17_ExtractedHostsAreExecutedHosts ==
    reading.phase = "done"
        => \A host \in DOMAIN reading.st.outputs :
              \E i \in 1..Len(reading.hosts) : reading.hosts[i] = host

\* guest g's poll query fails in this step, on a calendar that has entries
PollFails(g) ==
    /\ pc[g] = "start"
    /\ pc'[g] = "idle"
    /\ QueryResult(Paths, 0) # <<>>

\* guest g's write-back ends in this step without its block being stored
WriteBackFails(g) ==
    /\ pc[g] \in {"update", "put"}
    /\ pc'[g] \in {"loop", "idle"}
    /\ Head(events[g]).path \notin stored'[g]

\* guest g visits in this step an entry it has executed but never stored,
\* and that still has no marker of g
VisitsAgain(g) ==
    /\ Visits(g)
    /\ execCount[g][Head(events[g]).path] > 0
    /\ Head(events[g]).path \notin stored[g]
    /\ ~Marked(Head(events[g]).description, g)

\* C16: a failed poll query executes nothing and leaves the guest waiting for
\* the next tick; a failed fetch or put leaves the store unchanged, the guest
\* goes on to the next entry, and a later poll executes the entry again.
C16_FailuresAreRetried ==
    [][\A g \in Guests :
          /\ PollFails(g) => /\ execCount' = execCount
                             /\ store' = store
                             /\ events'[g] = <<>>
          /\ WriteBackFails(g) => /\ store' = store
                                  /\ events'[g] = Tail(events[g])
                                  /\ pc'[g] = IF Tail(events[g]) = <<>> THEN "idle" ELSE "loop"
          /\ VisitsAgain(g) => /\ decided'[g][Head(events[g]).path] = "exec"
                               /\ execCount'[g][Head(events[g]).path]
                                     = execCount[g][Head(events[g]).path] + 1]_vars

\* C16 witness: after a failed write-back of the first entry the guest went
\* on to the second, and on a later poll it executes the first again.
C16_RetriedAfterFailure ==
    \E g \in Guests :
        /\ execCount[g][0] = 2
        /\ 0 \notin stored[g]
        /\ execCount[g][1] = 1
        /\ store[0].description = <<>>

\* the text of a summary after the prefix
Remainder(summary) == TrimSpace(TrimPrefix(summary, commandPrefix))

\* the summary carries the prefix and then a text with '@' first and no ':'
AtWithoutColon(summary) ==
    /\ HasPrefix(summary, commandPrefix)
    /\ HasPrefix(Remainder(summary), <<"@">>)
    /\ ~Contains(Remainder(summary), <<":">>)

\* C18: a summary whose text after the prefix starts with '@' and has no ':'
\* is executed by every guest that visits it without a block of its own, the
\* whole remainder, '@' included, being the command line.
C18_AtWithoutColonIsBroadcast ==
    [][\A g \in Guests :
          (/\ Visits(g)
           /\ AtWithoutColon(Head(events[g]).summary)
           /\ ~Marked(Head(events[g]).description, g))
          => LET tokens == Fields(Remainder(Head(events[g]).summary))
             IN  /\ pc'[g] = "update"
                 /\ DecodedTarget(Head(events[g]).summary).kind = "Broadcast"
                 /\ \E env \in Envs :
                       out'[g] = ExecuteCommand(Hostname(g), tokens[1],
                                                Join(Tail(tokens), <<" ">>), env)]_vars

\* C18 witness: the entry "@a" was executed by the guest on "a" and by the
\* guest on "A".
C18_EveryHostExecuted ==
    \E p \in Paths :
        /\ store[p].present
        /\ store[p].summary = CreateSummary(<<"@","a">>)
        /\ execCount[1][p] > 0
        /\ execCount[2][p] > 0

\* C19: an entry that clear has deleted does not come back: no step other
\* than the console's creation of a new entry puts an entry where none is.
C19_ClearedEntryStaysDeleted ==
    [][\A p \in Paths :
          (~store[p].present /\ store'[p].present) => (p = nextPath /\ nextPath' = p + 1)]_vars

\* the description holds exactly one output block of the host
OneBlock(description, hostname) ==
    /\ Occurrences(description, StartMarker(hostname)) = 1
    /\ Occurrences(description, EndMarker(hostname)) = 1

\* every broadcast entry holds one block of every running guest, and no
\* guest is executing it or writing to it
Converged ==
    \A p \in Paths :
        (store[p].present /\ intent[p].kind = "Broadcast")
        => \A g \in Guests :
              pc[g] # "off" => (OneBlock(store[p].description, Hostname(g)) /\ ~InProgress(g, p))

\* C20: on a store that never fails and under fair scheduling of the guests,
\* eventually every broadcast entry holds exactly one output block of every
\* running guest and stays so (up to the executions one behaviour of the
\* model holds).
C20_Convergence == <>(TotalExecs = MaxExecs) \/ <>[]Converged

====
